---- MODULE Spec2Model ----
(***************************************************************************)
(* Model of spacefold (src/src/main.rs): a physical input device is        *)
(* grabbed and its events are re-emitted on one of two virtual devices,    *)
(* chosen by a mode that flips when the configured toggle sequence is      *)
(* seen in the stream of key events.                                       *)
(*                                                                         *)
(* The program is single threaded.  Its position is pc; one action models  *)
(* one step of main()/setup() and the steps of the body of the event loop  *)
(* follow each other in the order of the code.  The variables below the    *)
(* line "logs" are not program state: they record what the program did     *)
(* (which events were delivered, processed, emitted, which decisions were  *)
(* taken), so that properties of whole runs can be stated.                 *)
(***************************************************************************)
EXTENDS Integers, Sequences, FiniteSets

\* Bounds of the model.
MaxEvents == 3
MaxSeqLen == 2

VARIABLES
    config,                     \* the parsed config.yml
    devices,                    \* names of the devices raw_stream::enumerate() yields
    pc,                         \* position of the program
    grabbed,                    \* the physical device is grabbed by this process
    virtual_manipulator_device, \* VirtualDeviceWrapper of the manipulator output
    virtual_mouse_device,       \* VirtualDeviceWrapper of the mouse output
    mode,
    toggle_sequence,            \* Vec<Keystroke>
    history_max_len,
    history,                    \* VecDeque<Keystroke>
    output_device,              \* which wrapper output_device borrows
    events,                     \* what is left of the fetched batch
    event,                      \* the event of the current iteration
    stroke_saved,
    \* logs
    delivered,                  \* every event fetched, in the device's order
    processed,                  \* the events whose iteration has started, in order
    modes,                      \* modes[k]: mode when the iteration of processed[k] started
    decided,                    \* decided[k]: result and arguments of should_emit for processed[k]
    emitted,                    \* the successful emit calls, in order
    flips,                      \* flips[k]: the iteration of processed[k] changed mode
    failure                     \* "none", or which runtime call failed

vars == <<config, devices, pc, grabbed, virtual_manipulator_device,
          virtual_mouse_device, mode, toggle_sequence, history_max_len,
          history, output_device, events, event, stroke_saved,
          delivered, processed, modes, decided, emitted, flips, failure>>

logs == <<delivered, processed, modes, decided, emitted, flips, failure>>

----------------------------------------------------------------------------
\* Symbolic names and the platform's code space.

\* Key::from_str / RelativeAxisType::from_str of the evdev crate:
\* the names the platform knows, with their codes.
KeyCodes == [KEY_A |-> 30, KEY_B |-> 48]
AxisCodes == [REL_X |-> 0]

Key_from_str(s) ==
    IF s \in DOMAIN KeyCodes THEN [ok |-> TRUE, code |-> KeyCodes[s]]
    ELSE [ok |-> FALSE, code |-> 0]

RelativeAxisType_from_str(s) ==
    IF s \in DOMAIN AxisCodes THEN [ok |-> TRUE, code |-> AxisCodes[s]]
    ELSE [ok |-> FALSE, code |-> 0]

\* enum Mode
Mode == {"Mouse", "Manipulator"}

\* struct Keystroke
Keystroke(k, v) == [key |-> k, value |-> v]

\* InputEvent: kind() with code() and value().
InputEvent(k, c, v) == [kind |-> k, code |-> c, value |-> v]
NoEvent == InputEvent("None", 0, 0)

\* What the physical device can deliver: presses and releases of its keys,
\* relative motion, and synchronization reports.
Events ==
    { InputEvent("Key", 30, 1), InputEvent("Key", 30, 0), InputEvent("Key", 48, 1),
      InputEvent("RelAxis", 0, 1), InputEvent("Synchronization", 0, 0) }

\* supported_keys() / supported_relative_axes() of the physical device.
TargetKeys == {30, 48}
TargetAxes == {0}

\* The devices present on the machine.
TargetName == "SpaceNavigator"
DeviceLists == { <<"Keyboard", "SpaceNavigator">>, <<"Keyboard">> }

\* Non-empty sequences over S of length at most n.
SeqsUpTo(S, n) == UNION { [1..k -> S] : k \in 1..n }

\* struct Config, with the values of config.yml drawn from small sets
\* (the name prefixes only name the virtual devices and are left out).
TogglePairs == { <<"KEY_A", 1>>, <<"KEY_B", 1>>, <<"KEY_BOGUS", 1>> }
Configs ==
    [ target_name : {TargetName},
      virtual_mouse_keys : { <<"KEY_A">>, <<"KEY_A", "KEY_BOGUS">> },
      virtual_mouse_axes : { <<>>, <<"REL_X">>, <<"REL_BOGUS">> },
      toggle_sequence : SeqsUpTo(TogglePairs, MaxSeqLen),
      default_mode : Mode ]

----------------------------------------------------------------------------
\* Pure functions of the program.

\* Config::toggle_sequence_to_keystrokes; ok is FALSE where unwrap() panics.
toggle_sequence_to_keystrokes(cfg) ==
    [ ok |-> \A i \in 1..Len(cfg.toggle_sequence) :
                 Key_from_str(cfg.toggle_sequence[i][1]).ok,
      val |-> [ i \in 1..Len(cfg.toggle_sequence) |->
                 Keystroke(Key_from_str(cfg.toggle_sequence[i][1]).code,
                           cfg.toggle_sequence[i][2]) ] ]

\* VirtualDeviceConfig::prepare_keys: Err at the first unknown name.
prepare_keys(list) ==
    [ ok |-> \A i \in 1..Len(list) : Key_from_str(list[i]).ok,
      val |-> { Key_from_str(list[i]).code : i \in 1..Len(list) } ]

\* VirtualDeviceConfig::prepare_axes
prepare_axes(list) ==
    [ ok |-> \A i \in 1..Len(list) : RelativeAxisType_from_str(list[i]).ok,
      val |-> { RelativeAxisType_from_str(list[i]).code : i \in 1..Len(list) } ]

\* VirtualDeviceConfig::new
VirtualDeviceConfig_new(keys, axes) ==
    [ ok |-> prepare_keys(keys).ok /\ prepare_axes(axes).ok,
      keys |-> prepare_keys(keys).val,
      axes |-> prepare_axes(axes).val ]

\* find_device: the first enumerated device with the target's name.
find_device(target_name) ==
    \E i \in 1..Len(devices) : devices[i] = target_name

\* struct VirtualDeviceWrapper: the device and its config.
VirtualDeviceWrapper(c, k, a) == [created |-> c, keys |-> k, axes |-> a]
NoDevice == VirtualDeviceWrapper(FALSE, {}, {})

\* The wrapper output_device refers to.
Wrapper(name) ==
    IF name = "manipulator" THEN virtual_manipulator_device ELSE virtual_mouse_device

\* should_emit without the early return for Manipulator mode.
should_emit_always_filtered(device, ev, m) ==
    IF ev.kind = "Key" THEN ev.code \in device.keys
    ELSE IF ev.kind = "RelAxis" THEN ev.code \in device.axes
    ELSE TRUE

should_emit(device, ev, m) ==
    IF m = "Manipulator" THEN TRUE
    ELSE IF ev.kind = "Key" THEN ev.code \in device.keys
    ELSE IF ev.kind = "RelAxis" THEN ev.code \in device.axes
    ELSE TRUE

\* should_toggle comparing the key codes only, not the values.
should_toggle_codes_only(hist, sequence) ==
    IF Len(hist) # Len(sequence) THEN FALSE
    ELSE \A i \in 1..Len(hist) : hist[i].key = sequence[i].key

\* should_toggle without the comparison of the lengths: zip() stops at the
\* end of the shorter of the two.
should_toggle_no_length_check(hist, sequence) ==
    \A i \in 1..(IF Len(hist) < Len(sequence) THEN Len(hist) ELSE Len(sequence)) :
        hist[i] = sequence[i]

should_toggle(hist, sequence) ==
    IF Len(hist) # Len(sequence) THEN FALSE
    ELSE \A i \in 1..Len(hist) : hist[i] = sequence[i]

\* save_stroke without the eviction of the oldest keystroke.
save_stroke_no_evict(hist, ev, max_len) ==
    IF ev.kind = "Key"
    THEN [history |-> Append(hist, Keystroke(ev.code, ev.value)), saved |-> TRUE]
    ELSE [history |-> hist, saved |-> FALSE]

\* save_stroke evicting the newest keystroke instead of the oldest.
save_stroke_evict_newest(hist, ev, max_len) ==
    LET h1 == IF Len(hist) = max_len
              THEN (IF hist = <<>> THEN hist ELSE SubSeq(hist, 1, Len(hist) - 1))
              ELSE hist
    IN  IF ev.kind = "Key"
        THEN [history |-> Append(h1, Keystroke(ev.code, ev.value)), saved |-> TRUE]
        ELSE [history |-> h1, saved |-> FALSE]

\* save_stroke: the history after the call, and the value returned.
save_stroke(hist, ev, max_len) ==
    LET h1 == IF Len(hist) = max_len
              THEN (IF hist = <<>> THEN hist ELSE Tail(hist))
              ELSE hist
    IN  IF ev.kind = "Key"
        THEN [history |-> Append(h1, Keystroke(ev.code, ev.value)), saved |-> TRUE]
        ELSE [history |-> h1, saved |-> FALSE]

\* A match that always selects Manipulator: the mode never goes back.
Flip_to_manipulator(m) == "Manipulator"

Flip(m) == IF m = "Mouse" THEN "Manipulator" ELSE "Mouse"

----------------------------------------------------------------------------
\* The state when main() starts: config.yml has been parsed (the names in it
\* are still strings), nothing is grabbed or created.
Init ==
    /\ config \in Configs
    /\ devices \in DeviceLists
    /\ pc = "find_device"
    /\ grabbed = FALSE
    /\ virtual_manipulator_device = NoDevice
    /\ virtual_mouse_device = NoDevice
    /\ mode = "Unset"
    /\ toggle_sequence = <<>>
    /\ history_max_len = 0
    /\ history = <<>>
    /\ output_device = "none"
    /\ events = <<>>
    /\ event = NoEvent
    /\ stroke_saved = FALSE
    /\ delivered = <<>>
    /\ processed = <<>>
    /\ modes = <<>>
    /\ decided = <<>>
    /\ emitted = <<>>
    /\ flips = <<>>
    /\ failure = "none"

loopState == <<mode, toggle_sequence, history_max_len, history, output_device,
               events, event, stroke_saved>>

\* main() returns an error or panics: the locals are dropped, which releases
\* the grab and destroys the virtual devices.
Exit ==
    /\ pc' = "exited"
    /\ grabbed' = FALSE
    /\ virtual_manipulator_device' = [virtual_manipulator_device EXCEPT !.created = FALSE]
    /\ virtual_mouse_device' = [virtual_mouse_device EXCEPT !.created = FALSE]

----------------------------------------------------------------------------
\* Startup: main() up to the loop, with setup() step by step.

\* main: find_device(&config.target_name)?
FindDevice ==
    /\ pc = "find_device"
    /\ find_device(config.target_name)
    /\ pc' = "setup"
    /\ UNCHANGED <<config, devices, grabbed, virtual_manipulator_device,
                   virtual_mouse_device, loopState, logs>>

FindDeviceFail ==
    /\ pc = "find_device"
    /\ ~find_device(config.target_name)
    /\ Exit
    /\ UNCHANGED <<config, devices, loopState, logs>>

\* setup: find_device(...)?, then target_device.grab().unwrap()
SetupGrab ==
    /\ pc = "setup"
    /\ find_device(config.target_name)
    /\ grabbed' = TRUE
    /\ pc' = "create_manipulator"
    /\ UNCHANGED <<config, devices, virtual_manipulator_device,
                   virtual_mouse_device, loopState, logs>>

\* the grab is refused by the system: unwrap() panics
SetupGrabPanic ==
    /\ pc = "setup"
    /\ Exit
    /\ UNCHANGED <<config, devices, loopState, logs>>

\* setup: the manipulator's config mirrors the physical device, and the
\* device is created from it
CreateManipulator ==
    /\ pc = "create_manipulator"
    /\ virtual_manipulator_device' = VirtualDeviceWrapper(TRUE, TargetKeys, TargetAxes)
    /\ pc' = "mouse_config"
    /\ UNCHANGED <<config, devices, grabbed, virtual_mouse_device, loopState, logs>>

CreateManipulatorFail ==
    /\ pc = "create_manipulator"
    /\ Exit
    /\ UNCHANGED <<config, devices, loopState, logs>>

\* setup: VirtualDeviceConfig::new(.., &config.virtual_mouse_keys, &config.virtual_mouse_axes)?
MouseConfig ==
    /\ pc = "mouse_config"
    /\ LET c == VirtualDeviceConfig_new(config.virtual_mouse_keys, config.virtual_mouse_axes)
       IN  /\ c.ok
           /\ virtual_mouse_device' = VirtualDeviceWrapper(FALSE, c.keys, c.axes)
    /\ pc' = "create_mouse"
    /\ UNCHANGED <<config, devices, grabbed, virtual_manipulator_device, loopState, logs>>

MouseConfigFail ==
    /\ pc = "mouse_config"
    /\ ~VirtualDeviceConfig_new(config.virtual_mouse_keys, config.virtual_mouse_axes).ok
    /\ Exit
    /\ UNCHANGED <<config, devices, loopState, logs>>

\* setup: create_virtual_device(&virtual_mouse_config)? and the Ok(..) returned
CreateMouse ==
    /\ pc = "create_mouse"
    /\ virtual_mouse_device' = [virtual_mouse_device EXCEPT !.created = TRUE]
    /\ pc' = "init_loop"
    /\ UNCHANGED <<config, devices, grabbed, virtual_manipulator_device, loopState, logs>>

CreateMouseFail ==
    /\ pc = "create_mouse"
    /\ Exit
    /\ UNCHANGED <<config, devices, loopState, logs>>

\* main: mode, toggle_sequence, history_max_len and history before the loop
InitLoop ==
    /\ pc = "init_loop"
    /\ toggle_sequence_to_keystrokes(config).ok
    /\ mode' = config.default_mode
    /\ toggle_sequence' = toggle_sequence_to_keystrokes(config).val
    /\ history_max_len' = Len(toggle_sequence_to_keystrokes(config).val)
    /\ history' = <<>>
    /\ pc' = "fetch"
    /\ UNCHANGED <<config, devices, grabbed, virtual_manipulator_device,
                   virtual_mouse_device, output_device, events, event,
                   stroke_saved, logs>>

\* Key::from_str(k).unwrap() panics on a name of the toggle sequence
InitLoopPanic ==
    /\ pc = "init_loop"
    /\ ~toggle_sequence_to_keystrokes(config).ok
    /\ mode' = config.default_mode
    /\ Exit
    /\ UNCHANGED <<config, devices, toggle_sequence, history_max_len, history,
                   output_device, events, event, stroke_saved, logs>>

----------------------------------------------------------------------------
\* The loop.

\* match mode { Manipulator => &mut virtual_manipulator_device, Mouse => &mut virtual_mouse_device }
SelectOutput(m) == IF m = "Manipulator" THEN "manipulator" ELSE "mouse"

\* loop head: output_device is chosen and the next batch is fetched
Fetch ==
    /\ pc = "fetch"
    /\ Len(delivered) < MaxEvents
    /\ \E batch \in SeqsUpTo(Events, MaxEvents - Len(delivered)) :
          /\ events' = batch
          /\ delivered' = delivered \o batch
    /\ output_device' = SelectOutput(mode)
    /\ pc' = "save"
    /\ UNCHANGED <<config, devices, grabbed, virtual_manipulator_device,
                   virtual_mouse_device, mode, toggle_sequence, history_max_len,
                   history, event, stroke_saved,
                   processed, modes, decided, emitted, flips, failure>>

\* fetch_events() fails: main returns the error
FetchFail ==
    /\ pc = "fetch"
    /\ output_device' = SelectOutput(mode)
    /\ failure' = "fetch"
    /\ Exit
    /\ UNCHANGED <<config, devices, mode, toggle_sequence, history_max_len,
                   history, events, event, stroke_saved,
                   delivered, processed, modes, decided, emitted, flips>>

\* The iteration with the toggle check made right after save_stroke, before
\* the forwarding decision.
SaveStrokeStep_toggle_first ==
    /\ pc = "save"
    /\ events # <<>>
    /\ event' = Head(events)
    /\ events' = Tail(events)
    /\ LET r == save_stroke(history, Head(events), history_max_len)
       IN  /\ history' = r.history
           /\ stroke_saved' = r.saved
           /\ mode' = IF r.saved /\ should_toggle(r.history, toggle_sequence)
                      THEN Flip(mode) ELSE mode
    /\ processed' = Append(processed, Head(events))
    /\ modes' = Append(modes, mode)
    /\ pc' = "emit"
    /\ UNCHANGED <<config, devices, grabbed, virtual_manipulator_device,
                   virtual_mouse_device, toggle_sequence, history_max_len,
                   output_device, delivered, decided, emitted, flips, failure>>

\* The iteration taking the events of a batch from its end.
SaveStrokeStep_from_back ==
    /\ pc = "save"
    /\ events # <<>>
    /\ event' = events[Len(events)]
    /\ events' = SubSeq(events, 1, Len(events) - 1)
    /\ LET r == save_stroke(history, events[Len(events)], history_max_len)
       IN  /\ history' = r.history
           /\ stroke_saved' = r.saved
    /\ processed' = Append(processed, events[Len(events)])
    /\ modes' = Append(modes, mode)
    /\ pc' = "emit"
    /\ UNCHANGED <<config, devices, grabbed, virtual_manipulator_device,
                   virtual_mouse_device, mode, toggle_sequence, history_max_len,
                   output_device, delivered, decided, emitted, flips, failure>>

\* for event in events { let stroke_saved = save_stroke(&mut history, &event, history_max_len);
SaveStrokeStep ==
    /\ pc = "save"
    /\ events # <<>>
    /\ event' = Head(events)
    /\ events' = Tail(events)
    /\ LET r == save_stroke(history, Head(events), history_max_len)
       IN  /\ history' = r.history
           /\ stroke_saved' = r.saved
    /\ processed' = Append(processed, Head(events))
    /\ modes' = Append(modes, mode)
    /\ pc' = "emit"
    /\ UNCHANGED <<config, devices, grabbed, virtual_manipulator_device,
                   virtual_mouse_device, mode, toggle_sequence, history_max_len,
                   output_device, delivered, decided, emitted, flips, failure>>

Decision(fwd) == [forward |-> fwd, mode |-> mode, device |-> output_device]

\* if should_emit(output_device, &event, &mode) { output_device.device.emit(&[event])?; }
Emit ==
    /\ pc = "emit"
    /\ should_emit(Wrapper(output_device), event, mode)
    /\ decided' = Append(decided, Decision(TRUE))
    /\ emitted' = Append(emitted, [device |-> output_device, event |-> event])
    /\ pc' = "toggle"
    /\ UNCHANGED <<config, devices, grabbed, virtual_manipulator_device,
                   virtual_mouse_device, loopState,
                   delivered, processed, modes, flips, failure>>

\* A failed emit whose error is discarded: the iteration goes on.
EmitFail_swallowed ==
    /\ pc = "emit"
    /\ should_emit(Wrapper(output_device), event, mode)
    /\ decided' = Append(decided, Decision(TRUE))
    /\ failure' = "emit"
    /\ pc' = "toggle"
    /\ UNCHANGED <<config, devices, grabbed, virtual_manipulator_device,
                   virtual_mouse_device, loopState,
                   delivered, processed, modes, emitted, flips>>

\* emit() fails: main returns the error
EmitFail ==
    /\ pc = "emit"
    /\ should_emit(Wrapper(output_device), event, mode)
    /\ decided' = Append(decided, Decision(TRUE))
    /\ failure' = "emit"
    /\ Exit
    /\ UNCHANGED <<config, devices, loopState,
                   delivered, processed, modes, emitted, flips>>

\* A dropped key event taken back out of the history: only forwarded keys
\* are recorded and take part in the toggle check.
Drop_unrecorded ==
    /\ pc = "emit"
    /\ ~should_emit(Wrapper(output_device), event, mode)
    /\ decided' = Append(decided, Decision(FALSE))
    /\ history' = IF stroke_saved THEN SubSeq(history, 1, Len(history) - 1) ELSE history
    /\ stroke_saved' = FALSE
    /\ pc' = "toggle"
    /\ UNCHANGED <<config, devices, grabbed, virtual_manipulator_device,
                   virtual_mouse_device, mode, toggle_sequence, history_max_len,
                   output_device, events, event,
                   delivered, processed, modes, emitted, flips, failure>>

\* should_emit is false: the event is dropped
Drop ==
    /\ pc = "emit"
    /\ ~should_emit(Wrapper(output_device), event, mode)
    /\ decided' = Append(decided, Decision(FALSE))
    /\ pc' = "toggle"
    /\ UNCHANGED <<config, devices, grabbed, virtual_manipulator_device,
                   virtual_mouse_device, loopState,
                   delivered, processed, modes, emitted, flips, failure>>

\* The toggle step with the history emptied when the mode flips: matching
\* starts over after every flip.
Toggle_clearing_history ==
    /\ pc = "toggle"
    /\ mode' = IF stroke_saved /\ should_toggle(history, toggle_sequence)
               THEN Flip(mode) ELSE mode
    /\ history' = IF stroke_saved /\ should_toggle(history, toggle_sequence)
                  THEN <<>> ELSE history
    /\ flips' = Append(flips, mode' # mode)
    /\ pc' = IF events = <<>> THEN "fetch" ELSE "save"
    /\ UNCHANGED <<config, devices, grabbed, virtual_manipulator_device,
                   virtual_mouse_device, toggle_sequence, history_max_len,
                   output_device, events, event, stroke_saved,
                   delivered, processed, modes, decided, emitted, failure>>

\* The toggle step without the test of stroke_saved: the history is compared
\* after every event.
Toggle_without_stroke_saved ==
    /\ pc = "toggle"
    /\ mode' = IF should_toggle(history, toggle_sequence) THEN Flip(mode) ELSE mode
    /\ flips' = Append(flips, mode' # mode)
    /\ pc' = IF events = <<>> THEN "fetch" ELSE "save"
    /\ UNCHANGED <<config, devices, grabbed, virtual_manipulator_device,
                   virtual_mouse_device, toggle_sequence, history_max_len,
                   history, output_device, events, event, stroke_saved,
                   delivered, processed, modes, decided, emitted, failure>>

\* if stroke_saved && should_toggle(&history, &toggle_sequence) { mode = <the other mode> }
\* and the end of the iteration: the next event of the batch, or the loop head
Toggle ==
    /\ pc = "toggle"
    /\ mode' = IF stroke_saved /\ should_toggle(history, toggle_sequence)
               THEN Flip(mode) ELSE mode
    /\ flips' = Append(flips, mode' # mode)
    /\ pc' = IF events = <<>> THEN "fetch" ELSE "save"
    /\ UNCHANGED <<config, devices, grabbed, virtual_manipulator_device,
                   virtual_mouse_device, toggle_sequence, history_max_len,
                   history, output_device, events, event, stroke_saved,
                   delivered, processed, modes, decided, emitted, failure>>

Next ==
    \/ FindDevice \/ FindDeviceFail
    \/ SetupGrab \/ SetupGrabPanic
    \/ CreateManipulator \/ CreateManipulatorFail
    \/ MouseConfig \/ MouseConfigFail
    \/ CreateMouse \/ CreateMouseFail
    \/ InitLoop \/ InitLoopPanic
    \/ Fetch \/ FetchFail
    \/ SaveStrokeStep
    \/ Emit \/ EmitFail \/ Drop
    \/ Toggle

Spec == Init /\ [][Next]_vars

----------------------------------------------------------------------------
\* The program started with an empty toggle_sequence in config.yml, which
\* neither serde nor main() rejects.

ConfigsEmpty ==
    [ target_name : {TargetName},
      virtual_mouse_keys : { <<"KEY_A">>, <<"KEY_A", "KEY_BOGUS">> },
      virtual_mouse_axes : { <<>>, <<"REL_X">>, <<"REL_BOGUS">> },
      toggle_sequence : { <<>> },
      default_mode : Mode ]

InitEmpty ==
    /\ config \in ConfigsEmpty
    /\ devices \in DeviceLists
    /\ pc = "find_device"
    /\ grabbed = FALSE
    /\ virtual_manipulator_device = NoDevice
    /\ virtual_mouse_device = NoDevice
    /\ mode = "Unset"
    /\ toggle_sequence = <<>>
    /\ history_max_len = 0
    /\ history = <<>>
    /\ output_device = "none"
    /\ events = <<>>
    /\ event = NoEvent
    /\ stroke_saved = FALSE
    /\ delivered = <<>>
    /\ processed = <<>>
    /\ modes = <<>>
    /\ decided = <<>>
    /\ emitted = <<>>
    /\ flips = <<>>
    /\ failure = "none"

\* No name of the toggle sequence can be unknown: InitLoopPanic has no part.
NextEmpty ==
    \/ FindDevice \/ FindDeviceFail
    \/ SetupGrab \/ SetupGrabPanic
    \/ CreateManipulator \/ CreateManipulatorFail
    \/ MouseConfig \/ MouseConfigFail
    \/ CreateMouse \/ CreateMouseFail
    \/ InitLoop
    \/ Fetch \/ FetchFail
    \/ SaveStrokeStep
    \/ Emit \/ EmitFail \/ Drop
    \/ Toggle

SpecEmpty == InitEmpty /\ [][NextEmpty]_vars

----------------------------------------------------------------------------
\* should_toggle on its own: the toggle check of line 241 made after a key
\* event was saved, with any history and any toggle sequence as arguments.

\* The keystrokes the key events of the device give.
Keystrokes == { Keystroke(e.code, e.value) : e \in { x \in Events : x.kind = "Key" } }

InitDetector ==
    /\ config = [ target_name |-> TargetName,
                  virtual_mouse_keys |-> <<"KEY_A">>,
                  virtual_mouse_axes |-> <<"REL_X">>,
                  toggle_sequence |-> << <<"KEY_A", 1>> >>,
                  default_mode |-> "Mouse" ]
    /\ devices = <<TargetName>>
    /\ pc = "toggle"
    /\ grabbed = TRUE
    /\ virtual_manipulator_device = VirtualDeviceWrapper(TRUE, TargetKeys, TargetAxes)
    /\ virtual_mouse_device = VirtualDeviceWrapper(TRUE, {30}, {0})
    /\ mode \in Mode
    /\ toggle_sequence \in {<<>>} \cup SeqsUpTo(Keystrokes, MaxSeqLen)
    /\ history_max_len = Len(toggle_sequence)
    /\ history \in {<<>>} \cup SeqsUpTo(Keystrokes, MaxSeqLen + 1)
    /\ output_device = SelectOutput(mode)
    /\ events = <<>>
    /\ event = InputEvent("Key", 30, 1)
    /\ stroke_saved = TRUE
    /\ delivered = <<event>>
    /\ processed = <<event>>
    /\ modes = <<mode>>
    /\ decided = <<Decision(TRUE)>>
    /\ emitted = <<[device |-> output_device, event |-> event]>>
    /\ flips = <<>>
    /\ failure = "none"

NextDetector == Toggle

SpecDetector == InitDetector /\ [][NextDetector]_vars

----------------------------------------------------------------------------
\* Notions the properties are stated with.

\* The loop has been entered (it is left only by a failed fetch or emit).
Running == pc \in {"fetch", "save", "emit", "toggle"} \/ failure # "none"

\* N, the length of the configured toggle sequence.
N == Len(config.toggle_sequence)

\* The (code, value) pairs of the key events of s, in order.
KeyEventsOf(s) ==
    LET ks == SelectSeq(s, LAMBDA e : e.kind = "Key")
    IN  [i \in 1..Len(ks) |-> Keystroke(ks[i].code, ks[i].value)]

\* The last n entries of s (all of s when it is shorter).
LastN(s, n) == IF Len(s) <= n THEN s ELSE SubSeq(s, Len(s) - n + 1, Len(s))

\* The key events observed up to and including processed[k].
KeysUpTo(k) == KeyEventsOf(SubSeq(processed, 1, k))

\* Membership of an event's code in the mouse output's capability set of
\* its category; TRUE for the other categories.
InMouseCaps(e) ==
    IF e.kind = "Key" THEN e.code \in virtual_mouse_device.keys
    ELSE IF e.kind = "RelAxis" THEN e.code \in virtual_mouse_device.axes
    ELSE TRUE

\* The events of the iterations that called emit successfully, in order.
ForwardedEvents ==
    LET idx == [k \in 1..Len(decided) |-> k]
        sel == SelectSeq(idx, LAMBDA k : decided[k].forward
                                          /\ ~(failure = "emit" /\ k = Len(decided)))
    IN  [i \in 1..Len(sel) |-> processed[sel[i]]]

\* A name of the configuration that the platform does not know.
InvalidName(cfg) ==
    \/ ~prepare_keys(cfg.virtual_mouse_keys).ok
    \/ ~prepare_axes(cfg.virtual_mouse_axes).ok
    \/ ~toggle_sequence_to_keystrokes(cfg).ok

----------------------------------------------------------------------------
\* C1: the iteration of an event flips the mode if and only if the event is a
\* key event and the N most recent key events (code and value, in arrival
\* order, non-key events in between ignored) are the toggle sequence; no
\* flip before N key events were seen.
C1_ToggleCorrectness ==
    \A k \in 1..Len(flips) :
        flips[k] <=> /\ processed[k].kind = "Key"
                     /\ Len(KeysUpTo(k)) >= N
                     /\ LastN(KeysUpTo(k), N) = toggle_sequence

\* A flip on a two-key sequence whose keys were separated by a non-key event.
C1_Witness ==
    \E k \in 2..Len(flips) :
        flips[k] /\ N = 2 /\ processed[k-1].kind # "Key"

\* C2 (as claimed): every forwarded event goes to the output of the mode in
\* effect when its iteration started, also after a flip inside the batch.
C2_Claim ==
    \A k \in 1..Len(decided) :
        decided[k].forward => decided[k].device = SelectOutput(modes[k])

\* C3 (as claimed): in Mouse mode a key or axis event is forwarded iff its
\* code is in the mouse output's capability set; other events always.
C3_Claim ==
    \A k \in 1..Len(decided) :
        modes[k] = "Mouse" => (decided[k].forward <=> InMouseCaps(processed[k]))

\* C4: the mode changes only in the toggle step of an iteration, after the
\* forwarding decision of that iteration's event was taken (and its emit
\* done) under the mode in effect when the iteration started; the flip
\* changes neither that decision nor what was emitted.
C4_PreFlipRouting ==
    [][ (mode # "Unset" /\ mode' # mode) =>
            /\ pc = "toggle"
            /\ Len(decided) = Len(processed)
            /\ decided[Len(processed)].mode = mode
            /\ modes[Len(processed)] = mode
            /\ decided' = decided
            /\ emitted' = emitted ]_vars

\* The event that completed the match was dropped under Mouse mode, and the
\* mode is Manipulator afterwards.
C4_Witness ==
    \E k \in 1..Len(flips) :
        /\ flips[k] /\ modes[k] = "Mouse" /\ ~decided[k].forward
        /\ k = Len(flips) /\ mode = "Manipulator"

\* C5: an event whose iteration starts in Manipulator mode is forwarded,
\* whatever its category and code.
C5_ManipulatorPassThrough ==
    \A k \in 1..Len(decided) :
        modes[k] = "Manipulator" => decided[k].forward

\* A key outside the mouse capability set was emitted in Manipulator mode.
C5_Witness ==
    \E k \in 1..Len(decided) :
        /\ modes[k] = "Manipulator" /\ decided[k].forward
        /\ processed[k].kind = "Key" /\ ~InMouseCaps(processed[k])
        /\ \E i \in 1..Len(emitted) : emitted[i].event = processed[k]

\* C6 (as claimed): save_stroke on a non-key event leaves the history
\* unchanged and returns false; on a key event it returns true.
C6_Claim ==
    [][ (pc = "save" /\ pc' = "emit") =>
            IF event'.kind = "Key" THEN stroke_saved'
            ELSE history' = history /\ ~stroke_saved' ]_vars

\* C7: the history never holds more than N keystrokes, and in the loop the
\* capacity is N.
C7_BufferBound ==
    /\ Len(history) <= N
    /\ Running => history_max_len = N

\* A full history of two after three key events: one was evicted.
C7_Witness ==
    /\ N = 2 /\ Len(history) = 2
    /\ Len(processed) = 3 /\ Len(KeysUpTo(3)) = 3

\* C8 (as claimed): with a name the platform does not know in the
\* configuration, nothing is grabbed and no virtual device is created.
C8_Claim ==
    InvalidName(config) =>
        /\ ~grabbed
        /\ ~virtual_manipulator_device.created
        /\ ~virtual_mouse_device.created

\* C9: events are processed in the order delivered, one at a time: the
\* processed events are a prefix of the delivered ones, the emitted events
\* are the forwarded ones among them in the same order, each once, and an
\* iteration starts only when the one before has decided, emitted and
\* checked the toggle.
C9_Ordering ==
    /\ Len(processed) <= Len(delivered)
    /\ processed = SubSeq(delivered, 1, Len(processed))
    /\ [i \in 1..Len(emitted) |-> emitted[i].event] = ForwardedEvents
    /\ pc \in {"fetch", "save"} =>
           Len(decided) = Len(processed) /\ Len(flips) = Len(processed)
    /\ pc = "emit" =>
           Len(decided) + 1 = Len(processed) /\ Len(flips) + 1 = Len(processed)
    /\ pc = "toggle" =>
           Len(decided) = Len(processed) /\ Len(flips) + 1 = Len(processed)

\* Three events of one run: the first and the third emitted, the second dropped.
C9_Witness ==
    /\ Len(decided) = 3 /\ Len(emitted) = 2
    /\ decided[1].forward /\ ~decided[2].forward /\ decided[3].forward

\* C10: a failed fetch or emit ends the program: the step that fails changes
\* neither the mode nor the history of flips (the toggle check of the event
\* whose emit failed is not made), and nothing is fetched, recorded, emitted
\* or flipped after it.
C10_FatalFailure ==
    [][ /\ (failure = "none" /\ failure' # "none") =>
              /\ pc' = "exited"
              /\ mode' = mode /\ flips' = flips /\ history' = history
              /\ emitted' = emitted /\ delivered' = delivered
              /\ (failure' = "emit" => Len(flips') + 1 = Len(processed'))
        /\ failure # "none" =>
              /\ failure' = failure
              /\ mode' = mode /\ flips' = flips /\ history' = history
              /\ emitted' = emitted /\ delivered' = delivered
              /\ processed' = processed /\ decided' = decided ]_vars

\* The emit of an event that completes the toggle sequence failed: the
\* program has ended and the mode is still the one before.
C10_Witness ==
    /\ failure = "emit" /\ pc = "exited"
    /\ stroke_saved /\ should_toggle(history, toggle_sequence)
    /\ mode = modes[Len(modes)]
    /\ Len(flips) + 1 = Len(processed)

----------------------------------------------------------------------------
\* The history that results from observing the events of s one after the
\* other with capacity n, starting empty: a function of the events and of
\* the capacity alone.
RECURSIVE HistoryOf(_, _)
HistoryOf(s, n) ==
    IF s = <<>> THEN <<>>
    ELSE save_stroke(HistoryOf(SubSeq(s, 1, Len(s) - 1), n), s[Len(s)], n).history

\* C11: recording and toggle evaluation do not depend on forwarding: the
\* history and the iterations that flip are determined by the toggle
\* sequence and the events processed, whatever the capability sets, the
\* default mode and the forwarding decisions (so two runs fed the same
\* events agree on them); a dropped key event is in the history and is
\* checked against the toggle sequence like a forwarded one.
C11_RecordingIndependent ==
    /\ Running => history = HistoryOf(processed, N)
    /\ \A k \in 1..Len(flips) :
          flips[k] <=> /\ processed[k].kind = "Key"
                       /\ HistoryOf(SubSeq(processed, 1, k), N) = toggle_sequence
    /\ \A k \in 1..Len(decided) :
          (processed[k].kind = "Key" /\ ~decided[k].forward) =>
              LET h == HistoryOf(SubSeq(processed, 1, k), N)
              IN  h # <<>> /\ h[Len(h)] = Keystroke(processed[k].code, processed[k].value)

\* Key B, which the mouse output does not have, was dropped in Mouse mode,
\* is the newest entry of the history and completed the toggle sequence.
C11_Witness ==
    /\ pc = "fetch" /\ Len(flips) >= 1
    /\ flips[Len(flips)] /\ ~decided[Len(flips)].forward
    /\ processed[Len(flips)] = InputEvent("Key", 48, 1)
    /\ history # <<>> /\ history[Len(history)] = Keystroke(48, 1)

\* C12: once a key event has been observed and until the next event is
\* observed, the history is the (code, value) pairs of the last min(N, k)
\* of the k key events seen so far, in arrival order; at all times the
\* history is a run of the most recent key events, so nothing in it comes
\* from a non-key event and nothing is reordered or altered.
C12_SlidingWindow ==
    /\ (Running /\ processed # <<>> /\ processed[Len(processed)].kind = "Key") =>
           history = LastN(KeyEventsOf(processed), N)
    /\ Running => history = LastN(KeyEventsOf(processed), Len(history))

\* Three key events with non-key events nowhere: the window of two holds
\* the second and the third, the first was evicted.
C12_Witness ==
    /\ N = 2 /\ Len(processed) = 3 /\ Len(KeyEventsOf(processed)) = 3
    /\ processed[1] # processed[2] /\ processed[2] # processed[3]
    /\ history = <<Keystroke(processed[2].code, processed[2].value),
                   Keystroke(processed[3].code, processed[3].value)>>

\* The detector's contract: same length, and the same code and the same
\* value at every position.
Matches(hist, sequence) ==
    /\ Len(hist) = Len(sequence)
    /\ \A i \in 1..Len(sequence) :
          hist[i].key = sequence[i].key /\ hist[i].value = sequence[i].value

\* C13: should_toggle is true if and only if the history has the length of
\* the toggle sequence and equals it in code and value at every position (a
\* shorter history never matches, one differing value is enough not to
\* match), and the call changes neither the history nor the sequence.
C13_Detector ==
    /\ [](flips # <<>> => (flips[1] <=> Matches(history, toggle_sequence)))
    /\ [][ pc = "toggle" => (history' = history /\ toggle_sequence' = toggle_sequence) ]_vars

\* The detector declined a history with the codes of the sequence that
\* holds a release where the sequence has a press.
C13_Witness ==
    /\ pc = "fetch" /\ flips = <<FALSE>>
    /\ Len(history) = 2 /\ Len(toggle_sequence) = 2
    /\ \A i \in 1..2 : history[i].key = toggle_sequence[i].key
    /\ history[1] = toggle_sequence[1]
    /\ history[2].value = 0 /\ toggle_sequence[2].value = 1

\* The event processed[k] completes a match: it is a key event and the last
\* N key events up to it are the toggle sequence.
MatchAt(k) ==
    /\ processed[k].kind = "Key"
    /\ Len(KeysUpTo(k)) >= N
    /\ LastN(KeysUpTo(k), N) = toggle_sequence

\* The number of matches among the events whose iteration is complete.
MatchCount == Cardinality({ k \in 1..Len(flips) : MatchAt(k) })

OtherMode(m) == CHOOSE x \in Mode : x # m

\* C14: in the loop the mode is default_mode when the number of toggle
\* matches so far is even and the other mode when it is odd: it starts as
\* default_mode, every match moves it to the other mode, and nothing else
\* changes it.
C14_ModeParity ==
    Running =>
        mode = IF MatchCount % 2 = 0 THEN config.default_mode
               ELSE OtherMode(config.default_mode)

\* Two matches with an event that matched nothing in between: the mode is
\* the default mode again.
C14_Witness ==
    /\ pc = "fetch" /\ Len(flips) = 3
    /\ MatchAt(1) /\ ~MatchAt(2) /\ MatchAt(3)
    /\ mode = config.default_mode

\* C15 (as claimed): every key or relative-axis event emitted to the mouse
\* output has its code in the mouse capability set.
C15_Claim ==
    \A i \in 1..Len(emitted) :
        emitted[i].device = "mouse" => InMouseCaps(emitted[i].event)

\* C16: a flip leaves the history as it is, so occurrences of the toggle
\* sequence may overlap: when the sequence is N times the same keystroke, a
\* further such keystroke right after a flip flips again; the iteration of
\* a non-key event never flips.
C16_FlipKeepsHistory ==
    /\ [][ (mode # "Unset" /\ mode' # mode) => history' = history ]_vars
    /\ [](\A k \in 2..Len(flips) :
             ( /\ flips[k-1]
               /\ \A i \in 1..Len(toggle_sequence) : toggle_sequence[i] = toggle_sequence[1]
               /\ processed[k] = processed[k-1] ) => flips[k])
    /\ [](\A k \in 1..Len(flips) : processed[k].kind # "Key" => ~flips[k])

\* The sequence is twice the same press; the second and the third press of
\* that key both flipped, and the history still holds the sequence.
C16_Witness ==
    /\ Len(toggle_sequence) = 2 /\ toggle_sequence[1] = toggle_sequence[2]
    /\ flips = <<FALSE, TRUE, TRUE>>
    /\ history = toggle_sequence
    /\ mode = config.default_mode

\* C17: with an empty toggle sequence (N = 0) no event flips the mode: in
\* the loop the mode is default_mode, and no iteration has flipped.
C17_EmptySequenceNeverFlips ==
    (N = 0 /\ Running) =>
        /\ mode = config.default_mode
        /\ \A k \in 1..Len(flips) : ~flips[k]

\* With N = 0 a key event, a non-key event and a key event were processed:
\* the history holds both keystrokes, more than N, and the mode is the
\* default mode.
C17_Witness ==
    /\ N = 0 /\ pc = "fetch" /\ Len(flips) = 3
    /\ processed[1].kind = "Key" /\ processed[2].kind # "Key" /\ processed[3].kind = "Key"
    /\ Len(history) = 2
    /\ mode = config.default_mode

====
